---- MODULE Spec2Model ----
(***************************************************************************)
(* Model of A_my_tools/json_to_autogen_py.py: the generator that turns an  *)
(* AutoGen Studio JSON document into a Python program.                     *)
(* Spec is main with its call of generate_python_from_json, and a second   *)
(* call for comparing two calls; GroupSpec is the grouping of an import    *)
(* set into import statements, for any import set; SplitSpec is            *)
(* split_provider on any short provider string.                            *)
(* Three more programs of the repository have a specification each, the    *)
(* others at rest meanwhile: RssSpec is A_my_tools/cre_rss_tool.py,        *)
(* GazSpec is A_my_tools/gaz_ore_tool.py with its _http_get, and ChkSpec   *)
(* is U_network_tests/test_cursor_connectivity_checker.py.                 *)
(*                                                                         *)
(* Values.  A parsed JSON value (the Python object json.loads returns) is  *)
(* a pair <<kind, payload>>:                                               *)
(*   <<"str",   chars>>   a str, chars a sequence of one-character strings *)
(*   <<"num",   <<t>>>>   an int or float, t its repr ("5", "nan")         *)
(*   <<"const", <<t>>>>   True, False or None, t its repr                  *)
(*   <<"list",  elems>>   a list, elems a sequence of values               *)
(*   <<"map",   items>>   a dict, items a sequence of <<key, value>> in    *)
(*                        insertion order, keys unique                     *)
(* Text.  Generated text is a sequence of tokens (strings); a str value or *)
(* a provider contributes one token per character.  Layout (spaces, line   *)
(* wrapping, indentation) is not modelled.                                 *)
(***************************************************************************)
EXTENDS Integers, Sequences, FiniteSets, TLC

\* ------------------------------------------------------------------ bounds
\* Largest number of nested components in the root's "members" list.
MaxMembers == 1

\* ------------------------------------------------------------ value helpers
Str(s) == <<"str", s>>
Num(t) == <<"num", <<t>>>>
Const(t) == <<"const", <<t>>>>
List(xs) == <<"list", xs>>
Map(items) == <<"map", items>>

Kind(v) == v[1]
Payload(v) == v[2]

IsDict(v) == Kind(v) = "map"
IsList(v) == Kind(v) = "list"
IsStr(v) == Kind(v) = "str"

\* The keys of a dict, in insertion order.
Keys(v) == [i \in 1..Len(Payload(v)) |-> Payload(v)[i][1]]

HasKey(v, k) == \E i \in 1..Len(Payload(v)) : Payload(v)[i][1] = k

\* spec[k] for a dict that has the key k.
Get(v, k) == Payload(v)[CHOOSE i \in 1..Len(Payload(v)) : Payload(v)[i][1] = k][2]

\* Code-point order of the characters that occur in the model's strings.
CharOrder == <<"'", ".", "B", "C", "D", "E", "a", "b", "x">>

CharRank(c) == CHOOSE i \in 1..Len(CharOrder) : CharOrder[i] = c

\* Python's str comparison s < t on character sequences.
RECURSIVE StrLess(_, _)
StrLess(s, t) ==
    IF t = <<>> THEN FALSE
    ELSE IF s = <<>> THEN TRUE
    ELSE IF s[1] = t[1] THEN StrLess(Tail(s), Tail(t))
    ELSE CharRank(s[1]) < CharRank(t[1])

\* Python's str order of the dict keys that occur in the model's documents.
KeyOrder == <<"config", "label", "members", "name", "provider">>

KeyRank(k) == CHOOSE i \in 1..Len(KeyOrder) : KeyOrder[i] = k

\* sorted(items) of a dict's items: ascending by key (keys are unique).
RECURSIVE SortItems(_)
SortItems(items) ==
    IF items = <<>> THEN <<>>
    ELSE LET m == CHOOSE i \in 1..Len(items) :
                      \A j \in 1..Len(items) : KeyRank(items[i][1]) <= KeyRank(items[j][1])
             rest == [j \in 1..(Len(items) - 1) |-> IF j < m THEN items[j] ELSE items[j + 1]]
         IN  <<items[m]>> \o SortItems(rest)

\* ------------------------------------------------------------ split_provider
\* Index of the last "." of a character sequence, 0 when there is none.
LastDot(p) ==
    IF \E i \in 1..Len(p) : p[i] = "."
    THEN CHOOSE i \in 1..Len(p) : p[i] = "." /\ \A j \in (i + 1)..Len(p) : p[j] # "."
    ELSE 0

\* Mutant: provider.rpartition(".") in place of rsplit, which never fails to
\* unpack and gives an empty module for a str without ".".
SplitProviderPartition(p) ==
    [err |-> "None",
     mod |-> IF LastDot(p) = 0 THEN <<>> ELSE SubSeq(p, 1, LastDot(p) - 1),
     cls |-> SubSeq(p, LastDot(p) + 1, Len(p))]

\* Mutant: provider.split(".", 1), which splits at the first "." instead.
SplitProviderFirstDot(p) ==
    IF LastDot(p) = 0
    THEN [err |-> "ValueError", mod |-> <<>>, cls |-> <<>>]
    ELSE LET d == CHOOSE i \in 1..Len(p) : p[i] = "." /\ \A j \in 1..(i - 1) : p[j] # "."
         IN  [err |-> "None", mod |-> SubSeq(p, 1, d - 1), cls |-> SubSeq(p, d + 1, Len(p))]

\* provider.rsplit(".", 1) unpacked into (mod, cls): a str without "." gives a
\* one-element list and the unpacking raises ValueError.
SplitProvider(p) ==
    IF LastDot(p) = 0
    THEN [err |-> "ValueError", mod |-> <<>>, cls |-> <<>>]
    ELSE [err |-> "None",
          mod |-> SubSeq(p, 1, LastDot(p) - 1),
          cls |-> SubSeq(p, LastDot(p) + 1, Len(p))]

\* ----------------------------------------------------- dict_to_python_literal
\* Mutant: a str always goes between single quotes, unescaped.
ReprStrSingleQuotes(s) == <<"'">> \o s \o <<"'">>

\* repr of a str: single quotes unless the text holds a single quote (the
\* model's alphabet has no double quote), then double quotes.
ReprStr(s) ==
    IF \E i \in 1..Len(s) : s[i] = "'"
    THEN <<"\"">> \o s \o <<"\"">>
    ELSE <<"'">> \o s \o <<"'">>

RECURSIVE Literal(_, _)
RECURSIVE LiteralElems(_, _)
RECURSIVE LiteralItems(_, _)
\* The tokens of a value's Python literal; a dict's items in key order when
\* sorted, in insertion order otherwise.
Literal(v, sorted) ==
    CASE Kind(v) = "str" -> ReprStr(Payload(v))
      [] Kind(v) = "num" -> Payload(v)
      [] Kind(v) = "const" -> Payload(v)
      [] Kind(v) = "list" -> <<"[">> \o LiteralElems(Payload(v), sorted) \o <<"]">>
      [] Kind(v) = "map" ->
            <<"{">> \o LiteralItems(IF sorted THEN SortItems(Payload(v)) ELSE Payload(v), sorted)
                    \o <<"}">>

LiteralElems(xs, sorted) ==
    IF xs = <<>> THEN <<>>
    ELSE Literal(xs[1], sorted)
         \o (IF Len(xs) > 1 THEN <<",">> ELSE <<>>)
         \o LiteralElems(Tail(xs), sorted)

LiteralItems(items, sorted) ==
    IF items = <<>> THEN <<>>
    ELSE <<"'", items[1][1], "'", ":">> \o Literal(items[1][2], sorted)
         \o (IF Len(items) > 1 THEN <<",">> ELSE <<>>)
         \o LiteralItems(Tail(items), sorted)

\* Mutant: pprint.pformat(d, sort_dicts=False), which keeps insertion order.
PformatUnsorted(d) == Literal(d, FALSE)

\* pprint.pformat(d, sort_dicts=True): dict keys sorted at every depth.
dict_to_python_literal(d) == Literal(d, TRUE)

\* repr(d), as "{cfg!r}" renders it: dict keys in insertion order.
Repr(d) == Literal(d, FALSE)

\* ---------------------------------------------------------- collect_providers
RECURSIVE collect_providers(_)
RECURSIVE CollectAll(_)
\* Mutant: the branch for lists is missing, so nothing inside a list is found.
CollectSkippingLists(spec) ==
    CASE IsDict(spec) ->
            (IF HasKey(spec, "provider") /\ IsStr(Get(spec, "provider"))
             THEN {Payload(Get(spec, "provider"))} ELSE {})
            \cup CollectAll([i \in 1..Len(Payload(spec)) |-> Payload(spec)[i][2]])
      [] OTHER -> {}

\* The bag of provider strings of a value: a dict contributes its "provider"
\* value when that is a str, and every dict value and list element is walked.
collect_providers(spec) ==
    CASE IsDict(spec) ->
            (IF HasKey(spec, "provider") /\ IsStr(Get(spec, "provider"))
             THEN {Payload(Get(spec, "provider"))} ELSE {})
            \cup CollectAll([i \in 1..Len(Payload(spec)) |-> Payload(spec)[i][2]])
      [] IsList(spec) -> CollectAll(Payload(spec))
      [] OTHER -> {}

CollectAll(xs) ==
    IF xs = <<>> THEN {} ELSE collect_providers(xs[1]) \cup CollectAll(Tail(xs))

\* ------------------------------------------------------------ EXPLICIT_CTORS
\* A template is named by its text.  The registry maps provider strings to
\* templates; "None" stands for a key the registry does not have.
TplEmpty == ""
TplConst == "{var} = Agent()"
TplRepr == "{var} = Agent.load_component({cfg!r})"
TplName == "{var} = Agent(name={cfg[config][name]!r})"

Templates == {TplEmpty, TplConst, TplRepr, TplName}

\* Mutant: a provider without an entry takes the template registered for
\* another class of the same module.
RegistryGetByModule(reg, provider) ==
    LET same == {k \in DOMAIN reg :
                    /\ LastDot(k) # 0
                    /\ LastDot(provider) # 0
                    /\ SubSeq(k, 1, LastDot(k) - 1) = SubSeq(provider, 1, LastDot(provider) - 1)}
    IN  IF provider \in DOMAIN reg THEN reg[provider]
        ELSE IF same # {} THEN reg[CHOOSE k \in same : TRUE]
        ELSE "None"

\* EXPLICIT_CTORS.get(provider)
RegistryGet(reg, provider) ==
    IF provider \in DOMAIN reg THEN reg[provider] ELSE "None"

\* `if template:` -- None and the empty str are falsy.
Truthy(template) == template # "None" /\ template # ""

\* Mutant: a field the spec lacks is rendered as None instead of raising.
FormatLenient(template, var, spec) ==
    CASE template = TplEmpty -> [err |-> "None", code |-> <<>>]
      [] template = TplConst -> [err |-> "None", code |-> <<var, "=", "Agent", "(", ")">>]
      [] template = TplRepr ->
            [err |-> "None",
             code |-> <<var, "=", "Agent", ".", "load_component", "(">> \o Repr(spec) \o <<")">>]
      [] template = TplName ->
            IF \/ ~HasKey(spec, "config")
               \/ ~IsDict(Get(spec, "config"))
               \/ ~HasKey(Get(spec, "config"), "name")
            THEN [err |-> "None", code |-> <<var, "=", "Agent", "(", "name", "=", "None", ")">>]
            ELSE [err |-> "None",
                  code |-> <<var, "=", "Agent", "(", "name", "=">>
                           \o Repr(Get(Get(spec, "config"), "name")) \o <<")">>]

\* template.format(var=var, cfg=spec).  A field the spec lacks raises
\* KeyError; indexing a value that is no dict with a str raises TypeError.
Format(template, var, spec) ==
    CASE template = TplEmpty -> [err |-> "None", code |-> <<>>]
      [] template = TplConst -> [err |-> "None", code |-> <<var, "=", "Agent", "(", ")">>]
      [] template = TplRepr ->
            [err |-> "None",
             code |-> <<var, "=", "Agent", ".", "load_component", "(">> \o Repr(spec) \o <<")">>]
      [] template = TplName ->
            IF ~HasKey(spec, "config") THEN [err |-> "KeyError", code |-> <<>>]
            ELSE IF ~IsDict(Get(spec, "config")) THEN [err |-> "TypeError", code |-> <<>>]
            ELSE IF ~HasKey(Get(spec, "config"), "name") THEN [err |-> "KeyError", code |-> <<>>]
            ELSE [err |-> "None",
                  code |-> <<var, "=", "Agent", "(", "name", "=">>
                           \o Repr(Get(Get(spec, "config"), "name")) \o <<")">>]

\* -------------------------------------------------------------- emit_builder
\* The fallback statement: {var} = {cls_name}.load_component({cfg_literal}).
Fallback(spec, var, cls_name) ==
    <<var, "=">> \o cls_name \o <<".", "load_component", "(">>
    \o dict_to_python_literal(spec) \o <<")">>

\* Mutant: a root that is no dict, has no "provider" or a provider that is
\* no str is passed over: empty code and the imports as they were.
EmitBuilderLenient(spec, var, reg) ==
    LET none == [err |-> "None", code |-> <<>>, imports |-> {}]
    IN
    IF ~IsDict(spec) \/ ~HasKey(spec, "provider")
    THEN none
    ELSE LET provider == Get(spec, "provider") IN
         IF ~IsStr(provider)
         THEN none
         ELSE LET sp == SplitProvider(Payload(provider))
                  template == RegistryGet(reg, Payload(provider))
                  imports == {<<sp.mod, sp.cls>>}
              IN
              IF sp.err # "None" THEN [none EXCEPT !.err = sp.err]
              ELSE IF Truthy(template)
              THEN LET r == Format(template, var, spec) IN
                   IF r.err # "None" THEN [none EXCEPT !.err = r.err]
                   ELSE [err |-> "None", code |-> r.code, imports |-> imports]
              ELSE [err |-> "None",
                    code |-> Fallback(spec, var, sp.cls),
                    imports |-> imports]

\* emit_builder(spec, var, imports=set()): the error raised ("None" for a
\* normal return), the code and the import set returned.
emit_builder(spec, var, reg) ==
    LET none == [err |-> "None", code |-> <<>>, imports |-> {}]
    IN
    IF ~IsDict(spec) \/ ~HasKey(spec, "provider")
    THEN [none EXCEPT !.err = "ValueError"]
    ELSE LET provider == Get(spec, "provider") IN
         IF ~IsStr(provider)
         THEN [none EXCEPT !.err = "AttributeError"]
         ELSE LET sp == SplitProvider(Payload(provider))
                  template == RegistryGet(reg, Payload(provider))
                  imports == {<<sp.mod, sp.cls>>}
              IN
              IF sp.err # "None" THEN [none EXCEPT !.err = sp.err]
              ELSE IF Truthy(template)
              THEN LET r == Format(template, var, spec) IN
                   IF r.err # "None" THEN [none EXCEPT !.err = r.err]
                   ELSE [err |-> "None", code |-> r.code, imports |-> imports]
              ELSE [err |-> "None",
                    code |-> Fallback(spec, var, sp.cls),
                    imports |-> imports]

\* ----------------------------------------------------------- import lines
\* Mutant: the strs in descending order.
RECURSIVE SortStrsDescending(_)
SortStrsDescending(S) ==
    IF S = {} THEN <<>>
    ELSE LET m == CHOOSE x \in S : \A y \in S : y = x \/ StrLess(y, x)
         IN  <<m>> \o SortStrsDescending(S \ {m})

\* sorted(S) for a set of strs.
RECURSIVE SortStrs(_)
SortStrs(S) ==
    IF S = {} THEN <<>>
    ELSE LET m == CHOOSE x \in S : \A y \in S : y = x \/ StrLess(x, y)
         IN  <<m>> \o SortStrs(S \ {m})

\* sep.join(parts) on token sequences.
RECURSIVE Join(_, _)
Join(parts, sep) ==
    IF parts = <<>> THEN <<>>
    ELSE IF Len(parts) = 1 THEN parts[1]
    ELSE parts[1] \o sep \o Join(Tail(parts), sep)

\* Mutant: the pairs are unpacked the wrong way round (for cls, mod in ...).
ByModuleSwapped(import_set) ==
    [m \in {p[2] : p \in import_set} |-> {p[1] : p \in {q \in import_set : q[2] = m}}]

\* by_module: each module of the import set with the set of its classes.
ByModule(import_set) ==
    [m \in {p[1] : p \in import_set} |-> {p[2] : p \in {q \in import_set : q[1] = m}}]

\* f"from {mod} import {', '.join(sorted(classes))}"
ImportLine(mod, classes) ==
    <<"from">> \o mod \o <<"import">> \o Join(SortStrs(classes), <<",">>)

\* One line per module, for mod, classes in sorted(by_module.items()).
ImportLines(by_module) ==
    LET mods == SortStrs(DOMAIN by_module)
    IN  [i \in 1..Len(mods) |-> ImportLine(mods[i], by_module[mods[i]])]

\* --------------------------------------------------------------- assembling
\* Mutant: the runner calls run on another variable than the one assigned.
RunBlockOtherVariable ==
    <<"import asyncio",
      "async def main():",
      "result", "=", "await", "agent", ".", "run", "(", "task", "=",
      "\"Say hello (generated code).\"", ")",
      "print(result)",
      "if __name__ == \"__main__\":",
      "asyncio.run(main())">>

\* The runner, which calls run on the variable team.
RunBlock ==
    <<"import asyncio",
      "async def main():",
      "result", "=", "await", "team", ".", "run", "(", "task", "=",
      "\"Say hello (generated code).\"", ")",
      "print(result)",
      "if __name__ == \"__main__\":",
      "asyncio.run(main())">>

\* The header comment, which names the input file.
Header(name) ==
    <<"# This file was generated from:", name,
      "# It reconstructs your AutoGen 0.4.x configuration in pure Python.",
      "# You can now edit it freely (no JSON needed at runtime).">>

\* Mutant: the body code is put before the import statements.
ContentBodyFirst(header, lines, body, run_block) ==
    Join(<<header, body, <<>> >> \o lines \o << <<>>, run_block, <<>> >>, <<"\n\n">>)

\* "\n\n".join([header, *import_lines, "", body_code, "", run_block, ""])
Content(header, lines, body, run_block) ==
    Join(<<header>> \o lines \o << <<>>, body, <<>>, run_block, <<>> >>, <<"\n\n">>)

\* ------------------------------------------------------------------ inputs
\* Provider strings: empty, without separator, and well-formed ones.
PEmpty == <<>>
PNoSep == <<"a">>
PTeam == <<"a", ".", "B">>
PDeep == <<"a", ".", "b", ".", "C">>
PAgent == <<"a", ".", "D">>

Item(k, v) == <<k, v>>

\* A nested component; flip puts its "config" before its "provider".
Member(q, flip) ==
    LET prov == Item("provider", Str(q))
        cfg == Item("config", Map(<<Item("name", Str(<<"x">>))>>))
    IN  Map(IF flip THEN <<cfg, prov>> ELSE <<prov, cfg>>)

Members ==
    {Member(PAgent, FALSE), Member(PAgent, TRUE), Member(PTeam, FALSE),
     Member(PNoSep, FALSE), Member(PEmpty, FALSE)}

MemberLists == UNION {[1..n -> Members] : n \in 0..MaxMembers}

\* Teams: a well-formed root with a name and a list of nested components.
TeamDocs ==
    {Map(<<Item("provider", Str(p)),
           Item("config", Map(<<Item("name", Str(<<"b">>)), Item("members", List(ms))>>))>>) :
        p \in {PTeam, PDeep}, ms \in MemberLists}

Labels == {Num("nan"), Num("5"), Str(<<"'", "a">>), Const("None")}

\* Roots with an extra key, with and without "config".
LabelDocs ==
    {Map(<<Item("provider", Str(PTeam)), Item("label", l)>>) : l \in Labels}
    \cup {Map(<<Item("provider", Str(PTeam)), Item("label", l),
                Item("config", Map(<<Item("name", Str(<<"b">>))>>))>>) : l \in Labels}

\* Roots that are no component, or whose provider is malformed.
OddDocs ==
    {Map(<<Item("provider", Str(PEmpty)), Item("config", Map(<<>>))>>),
     Map(<<Item("provider", Str(PNoSep)), Item("config", Map(<<>>))>>),
     Map(<<Item("provider", Num("5")), Item("config", Map(<<>>))>>),
     Map(<<Item("provider", Map(<<Item("provider", Str(PAgent))>>))>>),
     Map(<<Item("config", Map(<<Item("name", Str(<<"b">>))>>))>>),
     Map(<<Item("provider", Str(PTeam)), Item("config", List(<<>>))>>),
     Map(<<Item("provider", Str(PTeam))>>),
     List(<<Member(PAgent, FALSE)>>),
     Str(PTeam)}

Trees == TeamDocs \cup LabelDocs \cup OddDocs

\* The input document: its parsed value, or a text json.loads rejects.
Unset == <<"unset", <<>>>>
Docs == {[ok |-> TRUE, tree |-> t] : t \in Trees} \cup {[ok |-> FALSE, tree |-> Unset]}

FileNames == {"team.json"}

\* The registries EXPLICIT_CTORS is tried with; the shipped one is empty.
Registries ==
    {<<>>} \cup {PTeam :> t : t \in Templates}
    \cup {PAgent :> TplConst, (PTeam :> TplRepr) @@ (PAgent :> TplConst)}

\* Changes of dict insertion order that leave the document's content alone.
Reverse(s) == [i \in 1..Len(s) |-> s[Len(s) + 1 - i]]

RECURSIVE ReverseAll(_)
ReverseAll(v) ==
    CASE Kind(v) = "map" ->
            Map(Reverse([i \in 1..Len(Payload(v)) |->
                            Item(Payload(v)[i][1], ReverseAll(Payload(v)[i][2]))]))
      [] Kind(v) = "list" -> List([i \in 1..Len(Payload(v)) |-> ReverseAll(Payload(v)[i])])
      [] OTHER -> v

ReverseRoot(v) == IF Kind(v) = "map" THEN Map(Reverse(Payload(v))) ELSE v

\* The document with the root's own order kept and every nested dict reversed.
ReverseNested(v) == ReverseRoot(ReverseAll(v))

Reorderings(v) == {ReverseAll(v), ReverseRoot(v), ReverseNested(v)}

\* ------------------------------------------------------------------- state
VARIABLES
    fname,        \* json_path.name
    doc,          \* the input document
    registry,     \* EXPLICIT_CTORS
    outfile,      \* the file at out_path: whether it exists, and its text
    out_start,    \* the file at out_path when the current run started
    pc,           \* the step generate_python_from_json is at
    spec,         \* the parsed document
    bag,          \* what collect_providers returned
    body_code,    \* emit_builder's code
    import_set,   \* emit_builder's import set
    by_module,    \* the import set grouped by module
    import_lines, \* the import statements
    content,      \* the assembled text
    err,          \* the exception that ended the run, "None" when there is none
    failed_at,    \* the step that raised it
    reads,        \* reads of json_path in this run
    writes,       \* writes of out_path in this run
    run,          \* 1 for the first call, 2 for the second
    variant,      \* how the second call's inputs relate to the first's
    first,        \* inputs and results of the first call
    input_exists, \* json_path.exists()
    exit_status,  \* the status the process ended with, -1 while main runs
    stderr,       \* the lines on standard error
    stdout        \* the lines on standard output

\* cre_rss_tool.py
VARIABLES
    rss_pc,       \* the statement cre_rss_tool is at
    feed,         \* what feedparser.parse returned: bozo and entries
    rss_results,  \* results
    rss_out,      \* the lines printed
    rss_ret       \* what the call returned

\* gaz_ore_tool.py
VARIABLES
    gaz_pc,       \* the statement consommation_annuelle_gaz_tool is at
    args,         \* the caller's arguments
    params,       \* params
    req_params,   \* the params argument of the running _http_get call
    cand,         \* the index in insee_candidates of fld, 0 on the standard path
    attempts,     \* what each requests.get of the running _http_get call gave
    slept,        \* the delays the running _http_get call has slept, in ms
    last_exc,     \* last_exc
    sent,         \* every params requests.get was called with
    queried,      \* the candidate fields _http_get was called for, in order
    resp,         \* resp, or resp_try: status code and body
    used_params,  \* used_params
    found,        \* found
    result,       \* what the call returned
    gaz_err       \* the exception that ended the call

\* test_cursor_connectivity_checker.py
VARIABLES
    chk_pc,       \* the statement main, or run_all_tests, is at
    problems,     \* results['problems']: category and severity of each
    flags,        \* the entries of results['network'], ['apis'], ['services']
    returned,     \* what each test method returned
    logged,       \* the problems each test method logged during its call
    advised,      \* the categories results['recommendations'] has advice for
    report,       \* the report: its summary line and its service states
    saved,        \* the report file has been written
    chk_exit      \* the status the process ended with, -1 while main runs

gen_vars == <<fname, doc, registry, outfile, out_start, pc, spec, bag, body_code, import_set,
              by_module, import_lines, content, err, failed_at, reads, writes, run, variant,
              first, input_exists, exit_status, stderr, stdout>>
rss_vars == <<rss_pc, feed, rss_results, rss_out, rss_ret>>
gaz_vars == <<gaz_pc, args, params, req_params, cand, attempts, slept, last_exc, sent, queried,
              resp, used_params, found, result, gaz_err>>
chk_vars == <<chk_pc, problems, flags, returned, logged, advised, report, saved, chk_exit>>

vars == <<gen_vars, rss_vars, gaz_vars, chk_vars>>

\* The variables of the other programs, which the generator leaves alone.
elsewhere == <<rss_vars, gaz_vars, chk_vars>>

\* A program that is not running: its variables at rest.
NoParams == <<>>
NoResp == [status |-> 0, body |-> "none"]
NoExc == [type |-> "None", status |-> 0]
NoErr == [type |-> "None", status |-> 0, at |-> "none"]
NoArgs == [nom_commune |-> "", code_insee_commune |-> "", annee |-> ""]
NoResult == [filters |-> <<>>, nhits |-> 0]
NoReport == [summary |-> "none", services |-> <<>>]

RssIdle ==
    /\ rss_pc = "idle"
    /\ feed = [bozo |-> FALSE, entries |-> <<>>]
    /\ rss_results = <<>>
    /\ rss_out = <<>>
    /\ rss_ret = <<"unset", <<>>>>

GazIdle ==
    /\ gaz_pc = "idle"
    /\ args = NoArgs
    /\ params = NoParams
    /\ req_params = NoParams
    /\ cand = 0
    /\ attempts = <<>>
    /\ slept = <<>>
    /\ last_exc = NoExc
    /\ sent = {}
    /\ queried = <<>>
    /\ resp = NoResp
    /\ used_params = NoParams
    /\ found = FALSE
    /\ result = NoResult
    /\ gaz_err = NoErr

ChkIdle ==
    /\ chk_pc = "idle"
    /\ problems = <<>>
    /\ flags = <<>>
    /\ returned = <<>>
    /\ logged = <<>>
    /\ advised = {}
    /\ report = NoReport
    /\ saved = FALSE
    /\ chk_exit = -1

NoFile == [exists |-> FALSE, text |-> <<>>]
OldFile == [exists |-> TRUE, text |-> <<"# an earlier file">>]

\* What stands for the content of a file that cannot be parsed, or is not there.
NoDoc == [ok |-> FALSE, tree |-> Unset]

NoFirst ==
    [doc |-> [ok |-> FALSE, tree |-> Unset], registry |-> <<>>, content |-> <<>>,
     err |-> "None", failed_at |-> "none"]

\* The locals of a call before its first statement.
Fresh ==
    /\ spec = Unset
    /\ bag = {}
    /\ body_code = <<>>
    /\ import_set = {}
    /\ by_module = <<>>
    /\ import_lines = <<>>
    /\ content = <<>>
    /\ err = "None"
    /\ failed_at = "none"
    /\ reads = 0
    /\ writes = 0

Init ==
    /\ fname \in FileNames
    /\ doc \in Docs
    /\ registry \in Registries
    /\ outfile \in {NoFile, OldFile}
    /\ out_start = outfile
    /\ input_exists \in BOOLEAN
    /\ ~input_exists => doc = NoDoc
    /\ pc = "main"
    /\ Fresh
    /\ run = 1
    /\ variant = "first"
    /\ first = NoFirst
    /\ exit_status = -1
    /\ stderr = <<>>
    /\ stdout = <<>>
    /\ RssIdle /\ GazIdle /\ ChkIdle

\* What main holds: they change in main's own statements only.
cli == <<input_exists, exit_status, stderr, stdout>>

inputs == <<fname, doc, registry, run, variant, first, out_start>>

\* Mutant: the exception is caught and another one raised in its place.
RaiseWrapped(e) ==
    /\ err' = "RuntimeError"
    /\ failed_at' = pc
    /\ pc' = "failed"

\* An exception leaves generate_python_from_json at once.
Raise(e) ==
    /\ err' = e
    /\ failed_at' = pc
    /\ pc' = "failed"

\* Mutant: the input is read once to look at it and once more to parse it.
LoadReadingTwice ==
    /\ pc = "load"
    /\ reads' = reads + 2
    /\ IF doc.ok
       THEN /\ spec' = doc.tree
            /\ pc' = "resolve"
            /\ UNCHANGED <<err, failed_at>>
       ELSE /\ Raise("JSONDecodeError")
            /\ UNCHANGED spec
    /\ UNCHANGED <<inputs, elsewhere,
                   cli, outfile, bag, body_code, import_set, by_module, import_lines,
                   content, writes>>

\* Mutant: the output file is opened for writing before the input is read.
LoadOutputOpened ==
    /\ pc = "load"
    /\ reads' = reads + 1
    /\ outfile' = [exists |-> TRUE, text |-> <<>>]
    /\ IF doc.ok
       THEN /\ spec' = doc.tree
            /\ pc' = "resolve"
            /\ UNCHANGED <<err, failed_at>>
       ELSE /\ Raise("JSONDecodeError")
            /\ UNCHANGED spec
    /\ UNCHANGED <<inputs, elsewhere,
                   cli, bag, body_code, import_set, by_module, import_lines, content, writes>>

\* 1) spec = json.loads(json_path.read_text(encoding='utf-8'))
Load ==
    /\ pc = "load"
    /\ reads' = reads + 1
    /\ IF doc.ok
       THEN /\ spec' = doc.tree
            /\ pc' = "resolve"
            /\ UNCHANGED <<err, failed_at>>
       ELSE /\ Raise("JSONDecodeError")
            /\ UNCHANGED spec
    /\ UNCHANGED <<inputs, elsewhere,
                   cli, outfile, bag, body_code, import_set, by_module, import_lines,
                   content, writes>>

\* 2) _ = sorted(collect_providers(spec)): the bag is collected and dropped.
Resolve ==
    /\ pc = "resolve"
    /\ bag' = collect_providers(spec)
    /\ pc' = "emit"
    /\ UNCHANGED <<inputs, elsewhere,
                   cli, outfile, spec, body_code, import_set, by_module, import_lines,
                   content, err, failed_at, reads, writes>>

\* Mutant: emit_builder takes the "provider" item out of the dict it is
\* given (spec.pop("provider")), which is the caller's dict.
EmitPoppingProvider ==
    /\ pc = "emit"
    /\ LET r == emit_builder(spec, "team", registry) IN
       IF r.err = "None"
       THEN /\ body_code' = r.code
            /\ import_set' = r.imports
            /\ spec' = Map(SelectSeq(Payload(spec), LAMBDA it : it[1] # "provider"))
            /\ pc' = "aggregate"
            /\ UNCHANGED <<err, failed_at>>
       ELSE /\ Raise(r.err)
            /\ UNCHANGED <<body_code, import_set, spec>>
    /\ UNCHANGED <<inputs, elsewhere,
                   cli, outfile, bag, by_module, import_lines, content, reads, writes>>

\* 3) body_code, import_set = emit_builder(spec, var="team", imports=set())
Emit ==
    /\ pc = "emit"
    /\ LET r == emit_builder(spec, "team", registry) IN
       IF r.err = "None"
       THEN /\ body_code' = r.code
            /\ import_set' = r.imports
            /\ pc' = "aggregate"
            /\ UNCHANGED <<err, failed_at>>
       ELSE /\ Raise(r.err)
            /\ UNCHANGED <<body_code, import_set>>
    /\ UNCHANGED <<inputs, elsewhere,
                   cli, outfile, spec, bag, by_module, import_lines, content, reads, writes>>

\* 4) by_module and import_lines
Aggregate ==
    /\ pc = "aggregate"
    /\ by_module' = ByModule(import_set)
    /\ import_lines' = ImportLines(ByModule(import_set))
    /\ pc' = "assemble"
    /\ UNCHANGED <<inputs, elsewhere,
                   cli, outfile, spec, bag, body_code, import_set, content, err, failed_at,
                   reads, writes>>

\* 5), 6) run_block, header and content
Assemble ==
    /\ pc = "assemble"
    /\ content' = Content(Header(fname), import_lines, body_code, RunBlock)
    /\ pc' = "write"
    /\ UNCHANGED <<inputs, elsewhere,
                   cli, outfile, spec, bag, body_code, import_set, by_module, import_lines,
                   err, failed_at, reads, writes>>

\* Mutant: the file is opened in mode "a" and the text is appended.
WrittenAppending(file, text) == [exists |-> TRUE, text |-> file.text \o text]

\* The file write_text leaves: opened in mode "w", its old text is dropped.
Written(file, text) == [exists |-> TRUE, text |-> text]

\* 7) out_path.write_text(content, encoding='utf-8') opens the file for
\* writing, which truncates it, and writes the text.
WriteOk ==
    /\ pc = "write"
    /\ outfile' = Written(outfile, content)
    /\ writes' = writes + 1
    /\ pc' = "done"
    /\ UNCHANGED <<inputs, elsewhere,
                   cli, spec, bag, body_code, import_set, by_module, import_lines, content,
                   err, failed_at, reads>>

\* The file cannot be opened: it is left as it was.
WriteFailsOpening ==
    /\ pc = "write"
    /\ writes' = writes + 1
    /\ Raise("OSError")
    /\ UNCHANGED <<inputs, elsewhere,
                   cli, outfile, spec, bag, body_code, import_set, by_module, import_lines,
                   content, reads>>

\* The file is opened and the writing fails: it is left empty.
WriteFailsWriting ==
    /\ pc = "write"
    /\ outfile' = Written(outfile, <<>>)
    /\ writes' = writes + 1
    /\ Raise("OSError")
    /\ UNCHANGED <<inputs, elsewhere,
                   cli, spec, bag, body_code, import_set, by_module, import_lines, content,
                   reads>>

\* ------------------------------------------------- the grouping step alone
\* Import sets as emit_builder's callers may hand on: any pairs of a module
\* and a class name.
GroupModules == {<<"a">>, <<"a", ".", "b">>, <<"x">>}
GroupClasses == {<<"B">>, <<"C">>, <<"D">>}
GroupPairs == GroupModules \X GroupClasses

\* The call stands before step 4 with some import set.
GroupInit ==
    /\ fname \in FileNames
    /\ doc = NoDoc
    /\ registry = <<>>
    /\ outfile = NoFile
    /\ out_start = outfile
    /\ input_exists = TRUE
    /\ pc = "aggregate"
    /\ spec = Unset
    /\ bag = {}
    /\ body_code = <<>>
    /\ import_set \in SUBSET GroupPairs
    /\ by_module = <<>>
    /\ import_lines = <<>>
    /\ content = <<>>
    /\ err = "None"
    /\ failed_at = "none"
    /\ reads = 1
    /\ writes = 0
    /\ run = 1
    /\ variant = "first"
    /\ first = NoFirst
    /\ exit_status = -1
    /\ stderr = <<>>
    /\ stdout = <<>>
    /\ RssIdle /\ GazIdle /\ ChkIdle

GroupNext == Aggregate

GroupSpec == GroupInit /\ [][GroupNext]_vars

\* ------------------------------------------------- split_provider alone
\* Largest length of a provider str handed to split_provider.
MaxProviderLen == 4

ProviderChars == {"a", ".", "B"}
RECURSIVE StrsUpTo(_)
StrsUpTo(n) ==
    IF n = 0 THEN {<<>>}
    ELSE LET shorter == StrsUpTo(n - 1)
         IN  shorter \cup {Append(q, c) : q \in shorter, c \in ProviderChars}
Providers == StrsUpTo(MaxProviderLen)

\* The call stands before step 3 with a root that has some provider str,
\* and no template registered.
SplitInit ==
    /\ fname \in FileNames
    /\ \E p \in Providers :
          /\ doc = [ok |-> TRUE, tree |-> Map(<<Item("provider", Str(p))>>)]
          /\ bag = {p}
    /\ registry = <<>>
    /\ outfile = NoFile
    /\ out_start = outfile
    /\ input_exists = TRUE
    /\ pc = "emit"
    /\ spec = doc.tree
    /\ body_code = <<>>
    /\ import_set = {}
    /\ by_module = <<>>
    /\ import_lines = <<>>
    /\ content = <<>>
    /\ err = "None"
    /\ failed_at = "none"
    /\ reads = 1
    /\ writes = 0
    /\ run = 1
    /\ variant = "first"
    /\ first = NoFirst
    /\ exit_status = -1
    /\ stderr = <<>>
    /\ stdout = <<>>
    /\ RssIdle /\ GazIdle /\ ChkIdle

SplitNext == Emit

SplitSpec == SplitInit /\ [][SplitNext]_vars

\* --------------------------------------------------------------------- main
locals == <<spec, bag, body_code, import_set, by_module, import_lines, content, err, failed_at,
            reads, writes>>

\* What the interpreter prints for an exception nothing caught: a heading,
\* one entry for each frame the exception passed, and the exception itself.
Traceback(e) ==
    <<"Traceback (most recent call last):", "in <module>", "in main",
      "in generate_python_from_json", e>>

\* if not json_path.exists(): raise SystemExit(f"Input JSON not found: {json_path}")
\* The interpreter prints a SystemExit's text on standard error and ends
\* with status 1.
MainStart ==
    /\ pc = "main"
    /\ exit_status = -1
    /\ IF input_exists
       THEN /\ pc' = "load"
            /\ UNCHANGED <<exit_status, stderr>>
       ELSE /\ exit_status' = 1
            /\ UNCHANGED pc
            /\ stderr' = Append(stderr, "Input JSON not found: " \o fname)
    /\ UNCHANGED <<inputs, elsewhere, input_exists, stdout, outfile, locals>>

\* generate_python_from_json returned: print(f"... Generated: {out_path}"),
\* and main returns.
MainReturns ==
    /\ pc = "done"
    /\ exit_status = -1
    /\ stdout' = Append(stdout, "Generated: out_path")
    /\ exit_status' = 0
    /\ UNCHANGED <<inputs, elsewhere, input_exists, stderr, outfile, pc, locals>>

\* generate_python_from_json raised: main catches nothing, so the
\* exception leaves main and the interpreter prints its traceback.
MainTraceback ==
    /\ pc = "failed"
    /\ exit_status = -1
    /\ stderr' = stderr \o Traceback(err)
    /\ exit_status' = 1
    /\ UNCHANGED <<inputs, elsewhere, input_exists, stdout, outfile, pc, locals>>

\* ------------------------------------------------------------ a second call
Ended == pc \in {"done", "failed"}

\* The root's provider string, for a root that has one.
HasRootProvider(t) == IsDict(t) /\ HasKey(t, "provider") /\ IsStr(Get(t, "provider"))
RootProvider(t) == Payload(Get(t, "provider"))

Again(v, d, r) ==
    /\ Ended
    /\ exit_status = -1
    /\ run = 1
    /\ run' = 2
    /\ variant' = v
    /\ doc' = d
    /\ registry' = r
    /\ first' = [doc |-> doc, registry |-> registry, content |-> content, err |-> err,
                 failed_at |-> failed_at]
    /\ out_start' = outfile
    /\ pc' = "load"
    /\ spec' = Unset
    /\ bag' = {}
    /\ body_code' = <<>>
    /\ import_set' = {}
    /\ by_module' = <<>>
    /\ import_lines' = <<>>
    /\ content' = <<>>
    /\ err' = "None"
    /\ failed_at' = "none"
    /\ reads' = 0
    /\ writes' = 0
    /\ UNCHANGED <<fname, outfile, cli, elsewhere>>

\* Two registries have the same entry, or both none, for the key k.
SameEntry(r1, r2, k) ==
    /\ (k \in DOMAIN r1) = (k \in DOMAIN r2)
    /\ k \in DOMAIN r1 => r1[k] = r2[k]

\* The same document, file name and registry.
AgainSame == Again("same", doc, registry)

\* A document that differs in the insertion order of dict keys only.
AgainReordered ==
    /\ doc.ok
    /\ \E t \in Reorderings(doc.tree) \ {doc.tree} :
          Again("reorder", [ok |-> TRUE, tree |-> t], registry)

\* A registry that differs in entries for other providers than the root's.
AgainOtherRegistry ==
    /\ doc.ok
    /\ HasRootProvider(doc.tree)
    /\ \E r \in Registries \ {registry} :
          /\ SameEntry(r, registry, RootProvider(doc.tree))
          /\ Again("registry", doc, r)

Next ==
    \/ MainStart
    \/ Load
    \/ Resolve
    \/ Emit
    \/ Aggregate
    \/ Assemble
    \/ WriteOk
    \/ WriteFailsOpening
    \/ WriteFailsWriting
    \/ MainReturns
    \/ MainTraceback
    \/ AgainSame
    \/ AgainReordered
    \/ AgainOtherRegistry

Spec == Init /\ [][Next]_vars

\* The generator is not running: its variables at rest.
GenIdle ==
    /\ fname = "team.json"
    /\ doc = NoDoc
    /\ registry = <<>>
    /\ outfile = NoFile
    /\ out_start = NoFile
    /\ pc = "idle"
    /\ Fresh
    /\ run = 1
    /\ variant = "first"
    /\ first = NoFirst
    /\ input_exists = FALSE
    /\ exit_status = -1
    /\ stderr = <<>>
    /\ stdout = <<>>

\* ============================================================ cre_rss_tool.py
\* Largest number of entries in the feed.
MaxEntries == 2

\* An entry of the feed: the fields it has, each with its text.
EntryFields == {"title", "link", "published"}
Entries == UNION {[S -> {"text"}] : S \in SUBSET EntryFields}
RECURSIVE EntryListsUpTo(_)
EntryListsUpTo(n) ==
    IF n = 0 THEN {<<>>}
    ELSE LET shorter == EntryListsUpTo(n - 1)
         IN  shorter \cup {Append(q, e) : q \in shorter, e \in Entries}
Feeds == [bozo : BOOLEAN, entries : EntryListsUpTo(MaxEntries)]

\* entry.get(key, default)
EntryGet(entry, key, default) == IF key \in DOMAIN entry THEN entry[key] ELSE default

\* The dict appended for an entry.
Record(entry) ==
    [title |-> EntryGet(entry, "title", "Titre inconnu"),
     link |-> EntryGet(entry, "link", "Lien manquant"),
     published |-> EntryGet(entry, "published", "Date inconnue")]

\* What a call returns: None, or a list.
ReturnsNone == <<"None", <<>>>>
ReturnsList(l) == <<"list", l>>

RssInit ==
    /\ rss_pc = "parse"
    /\ feed = [bozo |-> FALSE, entries |-> <<>>]
    /\ rss_results = <<>>
    /\ rss_out = <<>>
    /\ rss_ret = <<"unset", <<>>>>
    /\ GenIdle /\ GazIdle /\ ChkIdle

rss_others == <<gen_vars, gaz_vars, chk_vars>>

\* feed = feedparser.parse(rss_url)
RssParse ==
    /\ rss_pc = "parse"
    /\ feed' \in Feeds
    /\ rss_pc' = "bozo"
    /\ UNCHANGED <<rss_results, rss_out, rss_ret, rss_others>>

\* if feed.bozo: print the warning, and go on.
RssWarn ==
    /\ rss_pc = "bozo"
    /\ rss_out' = IF feed.bozo
                  THEN Append(rss_out, "[AVERTISSEMENT] Flux partiellement invalide")
                  ELSE rss_out
    /\ rss_pc' = "loop"
    /\ UNCHANGED <<feed, rss_results, rss_ret, rss_others>>

\* for entry in feed.entries: results.append({...})
RssAppend ==
    /\ rss_pc = "loop"
    /\ Len(rss_results) < Len(feed.entries)
    /\ rss_results' = Append(rss_results, Record(feed.entries[Len(rss_results) + 1]))
    /\ UNCHANGED <<rss_pc, feed, rss_out, rss_ret, rss_others>>

\* The loop is over and the function body ends, with no return statement:
\* the call returns None.
RssReturn ==
    /\ rss_pc = "loop"
    /\ Len(rss_results) = Len(feed.entries)
    /\ rss_ret' = ReturnsNone
    /\ rss_pc' = "returned"
    /\ UNCHANGED <<feed, rss_results, rss_out, rss_others>>

\* The local test: entries = cre_rss_tool(), then entries[:5] is printed.
\* Slicing None raises TypeError.
RssMain ==
    /\ rss_pc = "returned"
    /\ IF rss_ret[1] = "list"
       THEN /\ rss_out' = rss_out \o [i \in 1..Len(rss_ret[2]) |-> rss_ret[2][i].title]
            /\ rss_pc' = "main_done"
       ELSE /\ rss_out' = Append(rss_out, "TypeError: 'NoneType' object is not subscriptable")
            /\ rss_pc' = "main_raised"
    /\ UNCHANGED <<feed, rss_results, rss_ret, rss_others>>

RssNext ==
    \/ RssParse
    \/ RssWarn
    \/ RssAppend
    \/ RssReturn
    \/ RssMain

RssSpec == RssInit /\ [][RssNext]_vars

\* ============================================================ gaz_ore_tool.py
\* The caller's arguments: a str that is given, or one that is not (None
\* and "" alike are falsy).
ArgSets ==
    [nom_commune : {"", "Paris"}, code_insee_commune : {"", "75056"}, annee : {"", "2023"}]

\* params, as lines 69-88 build it: refine.filiere is set to "Gaz", and each
\* argument that is given adds its own key.
Params(a) ==
    ("dataset" :> "consommation-annuelle-d-electricite-et-gaz-par-commune")
    @@ ("rows" :> "100") @@ ("start" :> "0")
    @@ ("refine.filiere" :> "Gaz")
    @@ (IF a.nom_commune # "" THEN ("refine.nom_commune" :> a.nom_commune) ELSE <<>>)
    @@ (IF a.annee # "" THEN ("refine.annee" :> a.annee) ELSE <<>>)

\* Mutant: the order the earlier version of the tool prefers.
InseeCandidatesOtherOrder == <<"code_insee_commune", "code_commune_insee", "code_commune">>

\* insee_candidates
InseeCandidates == <<"code_commune_insee", "code_insee_commune", "code_commune">>

\* f"refine.{fld}"
RefineKey(fld) ==
    CASE fld = "code_commune_insee" -> "refine.code_commune_insee"
      [] fld = "code_insee_commune" -> "refine.code_insee_commune"
      [] fld = "code_commune" -> "refine.code_commune"

\* Mutant: try_params starts from an empty dict.
TryParamsFromEmpty(p, fld, code) ==
    (RefineKey(fld) :> code)
    @@ ("dataset" :> "consommation-annuelle-d-electricite-et-gaz-par-commune")
    @@ ("rows" :> "100") @@ ("start" :> "0")

\* try_params = dict(params); try_params[f"refine.{fld}"] = code_insee_commune
TryParams(p, fld, code) == (RefineKey(fld) :> code) @@ p

\* The keys k with k.startswith("refine.").
RefineKeys ==
    {"refine.filiere", "refine.nom_commune", "refine.annee"}
    \cup {RefineKey(InseeCandidates[i]) : i \in 1..Len(InseeCandidates)}

\* {k: v for k, v in used_params.items() if k.startswith("refine.")}
Filters(p) == [k \in (DOMAIN p) \cap RefineKeys |-> p[k]]

\* What requests.get may do: raise, or return a response with a status
\* code and a body that is no JSON, JSON that is no object, or an object
\* with nhits.
Exceptions == {"ConnectionError", "Timeout"}
ServerErrors == {500, 503}
OtherStatuses == {200, 404}
Bodies == {"nojson", "notdict", "nhits0", "nhits2"}

\* int(data.get("nhits", 0))
Nhits(body) == IF body = "nhits2" THEN 2 ELSE 0

\* Mutant: one more backoff.
DelaysWithFourBackoffs == <<0, 500, 1000, 2000, 4000>>

\* [0.0] + backoffs, in ms.
Delays == <<0, 500, 1000, 2000>>

GazInit ==
    /\ gaz_pc = "start"
    /\ args \in ArgSets
    /\ params = NoParams
    /\ req_params = NoParams
    /\ cand = 0
    /\ attempts = <<>>
    /\ slept = <<>>
    /\ last_exc = NoExc
    /\ sent = {}
    /\ queried = <<>>
    /\ resp = NoResp
    /\ used_params = NoParams
    /\ found = FALSE
    /\ result = NoResult
    /\ gaz_err = NoErr
    /\ GenIdle /\ RssIdle /\ ChkIdle

gaz_others == <<gen_vars, rss_vars, chk_vars>>

\* _http_get is called with the params p: last_exc = None, and the loop
\* starts.
CallHttpGet(p) ==
    /\ req_params' = p
    /\ attempts' = <<>>
    /\ slept' = <<>>
    /\ last_exc' = NoExc
    /\ gaz_pc' = "http"

\* An exception leaves the tool.
GazRaise(type, status, at) ==
    /\ gaz_err' = [type |-> type, status |-> status, at |-> at]
    /\ gaz_pc' = "raised"

\* Lines 68-133, or 68-118 and 159: params and used_params are built, and
\* _http_get is called, for the first candidate field or on the standard
\* path.
GazStart ==
    /\ gaz_pc = "start"
    /\ params' = Params(args)
    /\ used_params' = Params(args)
    /\ IF args.code_insee_commune # ""
       THEN /\ cand' = 1
            /\ queried' = <<InseeCandidates[1]>>
            /\ CallHttpGet(TryParams(Params(args), InseeCandidates[1], args.code_insee_commune))
       ELSE /\ cand' = 0
            /\ queried' = <<>>
            /\ CallHttpGet(Params(args))
    /\ UNCHANGED <<args, sent, resp, found, result, gaz_err, gaz_others>>

\* ------------------------------------------------------------- _http_get
\* What a requests.get gave: an exception, or a response.
Raised(type) == [kind |-> "exc", type |-> type, status |-> 0, body |-> "none"]
Answered(status, body) == [kind |-> "resp", type |-> "None", status |-> status, body |-> body]

\* The exception an attempt that failed leaves: the one raised, or
\* RuntimeError(f"HTTP {resp.status_code} serveur").
Failure(outcome) ==
    IF outcome.kind = "exc"
    THEN [type |-> outcome.type, status |-> 0]
    ELSE [type |-> "RuntimeError", status |-> outcome.status]

\* Mutant: the first failure is kept (if last_exc is None: last_exc = e).
RememberFirst(last, failure) == IF last = NoExc THEN failure ELSE last

\* last_exc = e
Remember(last, failure) == failure

\* One turn of the loop up to requests.get: the delay, if any, is slept,
\* and the request is sent.
HttpTry(outcome) ==
    /\ gaz_pc = "http"
    /\ Len(attempts) < Len(Delays)
    /\ slept' = IF Delays[Len(attempts) + 1] # 0
                THEN Append(slept, Delays[Len(attempts) + 1])
                ELSE slept
    /\ sent' = sent \cup {req_params}
    /\ attempts' = Append(attempts, outcome)

\* Mutant: on the INSEE path a call of _http_get that has used up its
\* attempts counts as a candidate without usable answer.
LoopEndsAsNoAnswer(e) ==
    IF cand = 0
    THEN GazRaise(e.type, e.status, "http") /\ UNCHANGED resp
    ELSE /\ gaz_pc' = "candidate"
         /\ resp' = [status |-> e.status, body |-> "nojson"]
         /\ UNCHANGED gaz_err

\* The loop is over with every attempt failed: raise last_exc.
LoopEnds(e) == GazRaise(e.type, e.status, "http") /\ UNCHANGED resp

\* The turn ends with `continue`: the next turn follows, or the loop ends.
Continue(failure) ==
    /\ last_exc' = Remember(last_exc, failure)
    /\ IF Len(attempts) + 1 = Len(Delays)
       THEN LoopEnds(Remember(last_exc, failure))
       ELSE UNCHANGED <<gaz_pc, gaz_err, resp>>

\* requests.get raises.
HttpRaises ==
    \E e \in Exceptions :
       /\ HttpTry(Raised(e))
       /\ Continue(Failure(Raised(e)))
       /\ UNCHANGED <<args, params, req_params, cand, queried, used_params, found, result,
                      gaz_others>>

\* The response has a status of 500 or more.
HttpServerError ==
    \E st \in ServerErrors :
       /\ HttpTry(Answered(st, "nojson"))
       /\ Continue(Failure(Answered(st, "nojson")))
       /\ UNCHANGED <<args, params, req_params, cand, queried, used_params, found, result,
                      gaz_others>>

\* The response has a status under 500: return resp.
HttpReturns ==
    \E st \in OtherStatuses, b \in Bodies :
       /\ HttpTry(Answered(st, b))
       /\ resp' = [status |-> st, body |-> b]
       /\ gaz_pc' = IF cand = 0 THEN "standard" ELSE "candidate"
       /\ UNCHANGED <<args, params, req_params, cand, queried, used_params, found, result,
                      last_exc, gaz_err, gaz_others>>

\* ------------------------------------------------------ the INSEE fallback
\* resp_try.json() gave an object.
IsObject(body) == body \in {"nhits0", "nhits2"}

\* resp_try.status_code == 200 and nhits_try > 0
Qualifies(r) == r.status = 200 /\ Nhits(r.body) > 0

\* The candidate is given up for the next one: the response is no JSON
\* (continue), or the test of line 142 fails.
GivenUp(r) == r.body = "nojson" \/ (IsObject(r.body) /\ ~Qualifies(r))

\* data_try is no dict: data_try.get raises AttributeError.
GazCandidateNotDict ==
    /\ gaz_pc = "candidate"
    /\ resp.body = "notdict"
    /\ GazRaise("AttributeError", 0, "candidate")
    /\ UNCHANGED <<args, params, req_params, cand, attempts, slept, last_exc, sent, queried,
                   resp, used_params, found, result, gaz_others>>

\* Lines 142-148: the candidate is adopted, and the loop left.
GazAdopt ==
    /\ gaz_pc = "candidate"
    /\ IsObject(resp.body)
    /\ Qualifies(resp)
    /\ used_params' = req_params
    /\ found' = TRUE
    /\ gaz_pc' = "check"
    /\ UNCHANGED <<args, params, req_params, cand, attempts, slept, last_exc, sent, queried,
                   resp, result, gaz_err, gaz_others>>

\* The next candidate field is tried.
GazNextCandidate ==
    /\ gaz_pc = "candidate"
    /\ GivenUp(resp)
    /\ cand < Len(InseeCandidates)
    /\ cand' = cand + 1
    /\ queried' = Append(queried, InseeCandidates[cand + 1])
    /\ CallHttpGet(TryParams(params, InseeCandidates[cand + 1], args.code_insee_commune))
    /\ UNCHANGED <<args, params, sent, resp, used_params, found, result, gaz_err, gaz_others>>

\* Lines 150-156: no candidate was adopted.
GazNotFound ==
    /\ gaz_pc = "candidate"
    /\ GivenUp(resp)
    /\ cand = Len(InseeCandidates)
    /\ GazRaise("RuntimeError", 0, "insee")
    /\ UNCHANGED <<args, params, req_params, cand, attempts, slept, last_exc, sent, queried,
                   resp, used_params, found, result, gaz_others>>

\* ------------------------------------------------------- the standard path
\* Lines 160-164: data = resp.json(), RuntimeError when that raises.
GazStandard ==
    /\ gaz_pc = "standard"
    /\ IF resp.body = "nojson"
       THEN GazRaise("RuntimeError", resp.status, "standard")
       ELSE gaz_pc' = "check" /\ UNCHANGED gaz_err
    /\ UNCHANGED <<args, params, req_params, cand, attempts, slept, last_exc, sent, queried,
                   resp, used_params, found, result, gaz_others>>

\* Lines 167-214: the status is checked and the result built.
GazCheck ==
    /\ gaz_pc = "check"
    /\ IF resp.status # 200
       THEN GazRaise("RuntimeError", resp.status, "check") /\ UNCHANGED result
       ELSE IF ~IsObject(resp.body)
       THEN GazRaise("AttributeError", 0, "check") /\ UNCHANGED result
       ELSE /\ result' = [filters |-> Filters(used_params), nhits |-> Nhits(resp.body)]
            /\ gaz_pc' = "returned"
            /\ UNCHANGED gaz_err
    /\ UNCHANGED <<args, params, req_params, cand, attempts, slept, last_exc, sent, queried,
                   resp, used_params, found, gaz_others>>

GazNext ==
    \/ GazStart
    \/ HttpRaises
    \/ HttpServerError
    \/ HttpReturns
    \/ GazCandidateNotDict
    \/ GazAdopt
    \/ GazNextCandidate
    \/ GazNotFound
    \/ GazStandard
    \/ GazCheck

GazSpec == GazInit /\ [][GazNext]_vars

\* ======================================= test_cursor_connectivity_checker.py
\* An entry of results['problems']: the message and the timestamp are left out.
Problem(category, severity) == [category |-> category, severity |-> severity]

\* n times the same problem.
Repeat(x, n) == [i \in 1..n |-> x]

\* The keys generate_report reads with .get(key, False).
Services == {"dns", "internet", "ssl", "github", "openai", "cursor"}

ChkInit ==
    /\ chk_pc = "system"
    /\ problems = <<>>
    /\ flags = <<>>
    /\ returned = <<>>
    /\ logged = <<>>
    /\ advised = {}
    /\ report = NoReport
    /\ saved = FALSE
    /\ chk_exit = -1
    /\ GenIdle /\ RssIdle /\ GazIdle

chk_others == <<gen_vars, rss_vars, gaz_vars>>
after_tests == <<advised, report, saved, chk_exit>>

\* The calls of log_problem a test method makes, in order.
Logs(test, ps) ==
    /\ problems' = problems \o ps
    /\ logged' = (test :> Len(ps)) @@ logged

\* The test method returns ret, and run_all_tests goes on with the next call.
Returns(test, ret, next) ==
    /\ returned' = (test :> ret) @@ returned
    /\ chk_pc' = next

\* self.results[...][key] = v
Sets(key, v) == flags' = (key :> v) @@ flags

\* test_system_info: nothing the report's summary or the exit code reads.
TestSystemInfo ==
    /\ chk_pc = "system"
    /\ chk_pc' = "dns"
    /\ UNCHANGED <<problems, flags, returned, logged, after_tests, chk_others>>

\* test_dns_resolution: every domain resolves, or gethostbyname raises
\* gaierror for one, or something else is raised.
TestDnsResolution ==
    /\ chk_pc = "dns"
    /\ \E o \in {"resolved", "gaierror", "exception"} :
          IF o = "resolved"
          THEN Logs("dns", <<>>) /\ Sets("dns", TRUE) /\ Returns("dns", TRUE, "internet")
          ELSE /\ Logs("dns", <<Problem("DNS", "ERROR")>>)
               /\ Returns("dns", FALSE, "internet")
               /\ UNCHANGED flags
    /\ UNCHANGED <<after_tests, chk_others>>

\* test_internet_connectivity: of the 3 URLs, ok answer 200 and exc raise.
TestInternetConnectivity ==
    /\ chk_pc = "internet"
    /\ \E ok \in 0..3, exc \in 0..3 :
          /\ ok + exc <= 3
          /\ Logs("internet",
                  Repeat(Problem("Internet", "WARNING"), exc)
                  \o (IF ok = 0 THEN <<Problem("Internet", "ERROR")>>
                      ELSE IF ok < 3 THEN <<Problem("Internet", "WARNING")>>
                      ELSE <<>>))
          /\ IF ok = 0 THEN UNCHANGED flags ELSE Sets("internet", TRUE)
          /\ Returns("internet", ok > 0, "proxy")
    /\ UNCHANGED <<after_tests, chk_others>>

\* test_proxy_settings: no proxy is set, or the one set works, or it answers
\* another status or raises. It returns proxy_info, no bool.
TestProxySettings ==
    /\ chk_pc = "proxy"
    /\ \E o \in {"none", "working", "broken"} :
          /\ Logs("proxy", IF o = "broken" THEN <<Problem("Proxy", "WARNING")>> ELSE <<>>)
          /\ Sets("proxy", o # "broken")
    /\ chk_pc' = "ssl"
    /\ UNCHANGED <<returned, after_tests, chk_others>>

\* test_ssl_certificates: some domain has an issue, or none.
TestSslCertificates ==
    /\ chk_pc = "ssl"
    /\ \E issues \in BOOLEAN :
          IF issues
          THEN /\ Logs("ssl", <<Problem("SSL", "WARNING")>>)
               /\ Returns("ssl", FALSE, "github")
               /\ UNCHANGED flags
          ELSE Logs("ssl", <<>>) /\ Sets("ssl", TRUE) /\ Returns("ssl", TRUE, "github")
    /\ UNCHANGED <<after_tests, chk_others>>

\* test_github_api
TestGithubApi ==
    /\ chk_pc = "github"
    /\ \E o \in {"200", "other", "exception"} :
          IF o = "200"
          THEN Logs("github", <<>>) /\ Sets("github", TRUE) /\ Returns("github", TRUE, "openai")
          ELSE /\ Logs("github", <<Problem("GitHub API", "ERROR")>>)
               /\ Returns("github", FALSE, "openai")
               /\ UNCHANGED flags
    /\ UNCHANGED <<after_tests, chk_others>>

\* test_openai_api: 401 and 200 are both a success; another status is
\* logged with the default severity.
TestOpenaiApi ==
    /\ chk_pc = "openai"
    /\ \E o \in {"401", "200", "other", "exception"} :
          IF o \in {"401", "200"}
          THEN Logs("openai", <<>>) /\ Sets("openai", TRUE) /\ Returns("openai", TRUE, "cursor")
          ELSE /\ Logs("openai", <<Problem("OpenAI API",
                                           IF o = "other" THEN "WARNING" ELSE "ERROR")>>)
               /\ Returns("openai", FALSE, "cursor")
               /\ UNCHANGED flags
    /\ UNCHANGED <<after_tests, chk_others>>

\* test_cursor_services: of the 2 URLs, ok answer 200 and exc raise; a URL
\* that answers another status is printed, not logged.
TestCursorServices ==
    /\ chk_pc = "cursor"
    /\ \E ok \in 0..2, exc \in 0..2 :
          /\ ok + exc <= 2
          /\ Logs("cursor", Repeat(Problem("Cursor", "WARNING"), exc))
          /\ Sets("cursor", ok > 0)
          /\ Returns("cursor", ok > 0, "recommend")
    /\ UNCHANGED <<after_tests, chk_others>>

\* generate_recommendations: the categories that get their recommendations.
GenerateRecommendations ==
    /\ chk_pc = "recommend"
    /\ advised' = {problems[i].category : i \in DOMAIN problems}
    /\ chk_pc' = "report"
    /\ UNCHANGED <<problems, flags, returned, logged, report, saved, chk_exit, chk_others>>

\* generate_report: the summary line, and the state of the services.
GenerateReport ==
    /\ chk_pc = "report"
    /\ report' = [summary |-> IF problems # <<>> THEN "PROBLEMES DETECTES"
                              ELSE "AUCUN PROBLEME MAJEUR DETECTE",
                  services |-> [k \in Services |->
                                  IF k \in DOMAIN flags THEN flags[k] ELSE FALSE]]
    /\ chk_pc' = "save"
    /\ UNCHANGED <<problems, flags, returned, logged, advised, saved, chk_exit, chk_others>>

\* main, lines 457-463: the report is written, or open or write raises
\* OSError, which except Exception turns into sys.exit(1).
SaveReport ==
    /\ chk_pc = "save"
    /\ \E ok \in BOOLEAN :
          IF ok
          THEN saved' = TRUE /\ chk_pc' = "exit" /\ UNCHANGED chk_exit
          ELSE chk_exit' = 1 /\ chk_pc' = "exited" /\ UNCHANGED saved
    /\ UNCHANGED <<problems, flags, returned, logged, advised, report, chk_others>>

\* Mutant: every problem counts.
ProblemCount(ps) == Len(ps)

\* error_count
ErrorCount(ps) == Cardinality({i \in DOMAIN ps : ps[i].severity = "ERROR"})

\* main, lines 465-472: SystemExit is no Exception, so it leaves main.
Exit ==
    /\ chk_pc = "exit"
    /\ chk_exit' = IF ErrorCount(problems) > 0 THEN 1 ELSE 0
    /\ chk_pc' = "exited"
    /\ UNCHANGED <<problems, flags, returned, logged, advised, report, saved, chk_others>>

\* KeyboardInterrupt while a test waits for the network: sys.exit(130).
Interrupt ==
    /\ chk_pc \in {"dns", "internet", "proxy", "ssl", "github", "openai", "cursor"}
    /\ chk_exit' = 130
    /\ chk_pc' = "exited"
    /\ UNCHANGED <<problems, flags, returned, logged, advised, report, saved, chk_others>>

ChkNext ==
    \/ TestSystemInfo
    \/ TestDnsResolution
    \/ TestInternetConnectivity
    \/ TestProxySettings
    \/ TestSslCertificates
    \/ TestGithubApi
    \/ TestOpenaiApi
    \/ TestCursorServices
    \/ GenerateRecommendations
    \/ GenerateReport
    \/ SaveReport
    \/ Exit
    \/ Interrupt

ChkSpec == ChkInit /\ [][ChkNext]_vars

\* ------------------------------------------------- reading a literal back
\* What Python makes of a literal's tokens: the value, or a failure when the
\* tokens are no literal (nan and inf are names, not literals).
Undecodable == [ok |-> FALSE, val |-> Unset, next |-> 0]

NumTokens == {"5"}
ConstTokens == {"True", "False", "None"}

\* The index of the first token q after position i, 0 when there is none.
Closing(t, i, q) ==
    IF \E j \in (i + 1)..Len(t) : t[j] = q
    THEN CHOOSE j \in (i + 1)..Len(t) : t[j] = q /\ \A k \in (i + 1)..(j - 1) : t[k] # q
    ELSE 0

RECURSIVE ParseValue(_, _)
RECURSIVE ParseElems(_, _, _)
RECURSIVE ParseItems(_, _, _)
ParseValue(t, i) ==
    IF i > Len(t) THEN Undecodable
    ELSE IF t[i] \in {"'", "\""}
    THEN LET j == Closing(t, i, t[i]) IN
         IF j = 0 THEN Undecodable
         ELSE [ok |-> TRUE, val |-> Str(SubSeq(t, i + 1, j - 1)), next |-> j + 1]
    ELSE IF t[i] \in NumTokens THEN [ok |-> TRUE, val |-> Num(t[i]), next |-> i + 1]
    ELSE IF t[i] \in ConstTokens THEN [ok |-> TRUE, val |-> Const(t[i]), next |-> i + 1]
    ELSE IF t[i] = "[" THEN ParseElems(t, i + 1, <<>>)
    ELSE IF t[i] = "{" THEN ParseItems(t, i + 1, <<>>)
    ELSE Undecodable

\* The elements of a list display from position i on, acc those read so far.
ParseElems(t, i, acc) ==
    IF i > Len(t) THEN Undecodable
    ELSE IF t[i] = "]" THEN [ok |-> TRUE, val |-> List(acc), next |-> i + 1]
    ELSE LET r == ParseValue(t, i) IN
         IF ~r.ok \/ r.next > Len(t) THEN Undecodable
         ELSE IF t[r.next] = "," THEN ParseElems(t, r.next + 1, Append(acc, r.val))
         ELSE IF t[r.next] = "]"
         THEN [ok |-> TRUE, val |-> List(Append(acc, r.val)), next |-> r.next + 1]
         ELSE Undecodable

\* The items of a dict display from position i on; a key read twice keeps
\* its first place and takes the later value.
ParseItems(t, i, acc) ==
    IF i > Len(t) THEN Undecodable
    ELSE IF t[i] = "}" THEN [ok |-> TRUE, val |-> Map(acc), next |-> i + 1]
    ELSE IF i + 3 > Len(t) \/ t[i] # "'" \/ t[i + 2] # "'" \/ t[i + 3] # ":" THEN Undecodable
    ELSE LET r == ParseValue(t, i + 4)
             k == t[i + 1]
             seen == \E n \in 1..Len(acc) : acc[n][1] = k
             acc2 == IF seen
                     THEN [n \in 1..Len(acc) |-> IF acc[n][1] = k THEN Item(k, r.val) ELSE acc[n]]
                     ELSE Append(acc, Item(k, r.val))
         IN
         IF ~r.ok \/ r.next > Len(t) THEN Undecodable
         ELSE IF t[r.next] = "," THEN ParseItems(t, r.next + 1, acc2)
         ELSE IF t[r.next] = "}" THEN [ok |-> TRUE, val |-> Map(acc2), next |-> r.next + 1]
         ELSE Undecodable

Decodes(t) == LET r == ParseValue(t, 1) IN r.ok /\ r.next = Len(t) + 1
Decode(t) == ParseValue(t, 1).val

\* Deep equality of values: dicts compare by content, whatever the insertion
\* order; lists compare in order.
RECURSIVE Canon(_)
Canon(v) ==
    CASE Kind(v) = "map" ->
            Map(SortItems([i \in 1..Len(Payload(v)) |->
                              Item(Payload(v)[i][1], Canon(Payload(v)[i][2]))]))
      [] Kind(v) = "list" -> List([i \in 1..Len(Payload(v)) |-> Canon(Payload(v)[i])])
      [] OTHER -> v

DeepEqual(a, b) == Canon(a) = Canon(b)

\* ------------------------------------------------------------------ claims
\* Reading an import statement: its module and the classes it lists.
ImportAt(line) == CHOOSE k \in 1..Len(line) : line[k] = "import"
LineModule(line) == SubSeq(line, 2, ImportAt(line) - 1)

RECURSIVE SplitOn(_, _)
\* The pieces of a token sequence between the tokens sep.
SplitOn(t, sep) ==
    IF \E i \in 1..Len(t) : t[i] = sep
    THEN LET i == CHOOSE j \in 1..Len(t) : t[j] = sep /\ \A k \in 1..(j - 1) : t[k] # sep
         IN  <<SubSeq(t, 1, i - 1)>> \o SplitOn(SubSeq(t, i + 1, Len(t)), sep)
    ELSE <<t>>

LineClasses(line) == SplitOn(SubSeq(line, ImportAt(line) + 1, Len(line)), ",")

\* The statement imports the provider's class from the provider's module.
LineImports(line, p) ==
    /\ LastDot(p) # 0
    /\ LineModule(line) = SubSeq(p, 1, LastDot(p) - 1)
    /\ \E n \in 1..Len(LineClasses(line)) :
          LineClasses(line)[n] = SubSeq(p, LastDot(p) + 1, Len(p))

\* The root provider is a str that is empty, or one without ".".
RootProviderIs(p) == doc.ok /\ HasRootProvider(doc.tree) /\ RootProvider(doc.tree) = p

\* Some dict of the document has a provider str without "." (the empty one
\* included).
HasMalformedProvider == doc.ok /\ \E p \in collect_providers(doc.tree) : LastDot(p) = 0

\* The root provider is well-formed and a nested one is not.
MalformedBelowRootOnly ==
    /\ HasMalformedProvider
    /\ HasRootProvider(doc.tree)
    /\ LastDot(RootProvider(doc.tree)) # 0

\* Nothing of the program text has been produced, and nothing written.
NothingProduced ==
    /\ import_set = {}
    /\ import_lines = <<>>
    /\ body_code = <<>>
    /\ content = <<>>
    /\ writes = 0
    /\ outfile = out_start

\* C1: when generation succeeds, every provider string collect_providers
\* gathered from the tree is imported by exactly one import statement of the
\* output.  Stated for the trees all of whose providers are well-formed, so
\* that a violation is a well-formed provider the output does not import.
C1_EveryProviderImportedOnce ==
    pc = "done" /\ ~HasMalformedProvider =>
        \A p \in bag :
            Cardinality({i \in 1..Len(import_lines) : LineImports(import_lines[i], p)}) = 1

C3_ResolveRejectsMalformed ==
    MalformedBelowRootOnly =>
        /\ pc \notin {"emit", "aggregate", "assemble", "write", "done"}
        /\ pc = "failed" => err = "ReferenceError" /\ failed_at = "resolve"
        /\ writes = 0

\* C4: once emit_builder has returned, its code is the registered template
\* rendered with (spec, var) if the registry has an entry for the root
\* provider, whatever the template's text, and the load_component fallback
\* only if the registry has no such entry.
C4_TemplateIffEntry ==
    pc = "aggregate" =>
        IF RootProvider(spec) \in DOMAIN registry
        THEN body_code = Format(registry[RootProvider(spec)], "team", spec).code
        ELSE body_code = Fallback(spec, "team", SplitProvider(RootProvider(spec)).cls)

\* The text a run has settled on is known: it is about to be written, has
\* been written, or the run has failed.
Settled == pc \in {"write", "done", "failed"}

\* The exception of a run, leaving aside a failure of the write itself.
ErrorBeforeWrite(e, at) == IF at = "write" THEN "None" ELSE e

\* The second call settled on the text and the error of the first.
SameOutcome ==
    /\ content = first.content
    /\ ErrorBeforeWrite(err, failed_at) = ErrorBeforeWrite(first.err, first.failed_at)
    /\ pc = "done" => outfile.text = first.content

\* C5: with the same document, registries that differ only in entries for
\* providers other than the root's give the same output.
C5_OtherEntriesIrrelevant ==
    run = 2 /\ variant = "registry" /\ Settled => SameOutcome

C5_Witness ==
    /\ run = 2
    /\ variant = "registry"
    /\ pc = "done"
    /\ PAgent \in bag
    /\ RootProvider(spec) = PTeam
    /\ (PAgent \in DOMAIN registry) # (PAgent \in DOMAIN first.registry)

\* The template the run renders for its root puts a dict of the document
\* into the code ({cfg!r} is the repr of the whole spec).
RootTemplateRendersDict ==
    /\ doc.ok
    /\ HasRootProvider(doc.tree)
    /\ RegistryGet(registry, RootProvider(doc.tree)) = TplRepr

\* The run takes the fallback path for its root: the registry has no
\* template for the root provider, or an empty one.
RootOnFallback ==
    doc.ok /\ HasRootProvider(doc.tree) /\ ~Truthy(RegistryGet(registry, RootProvider(doc.tree)))

\* C6 as claimed: two documents that differ only in the insertion order of
\* dict keys, with the same file name and registry, give the same output
\* text, on the fallback path and on the template path.
C6_OrderInsensitive ==
    run = 2 /\ variant = "reorder" /\ Settled => SameOutcome

\* C6 as the code has it: the same on the fallback path, and on the template
\* path when the template renders no dict of the document.
C6_OrderInsensitiveUnlessDictRendered ==
    run = 2 /\ variant = "reorder" /\ Settled /\ ~RootTemplateRendersDict => SameOutcome

C6_Witness ==
    /\ run = 2
    /\ variant = "reorder"
    /\ pc = "done"
    /\ RootOnFallback
    /\ doc # first.doc
    /\ Repr(doc.tree) # Repr(first.doc.tree)
    /\ \E i \in 1..Len(body_code) : body_code[i] = "load_component"

EmittedWithoutTemplate ==
    /\ pc \in {"aggregate", "assemble", "write", "done"}
    /\ RootProvider(spec) \notin DOMAIN registry

\* The argument of the call the body code makes: the tokens between the
\* parenthesis after load_component and the closing one.
CallAt(code) == CHOOSE k \in 1..Len(code) : code[k] = "load_component"
CallArgument(code) == SubSeq(code, CallAt(code) + 2, Len(code) - 1)

\* The value holds a float that is no number: NaN (json.loads accepts NaN
\* and Infinity), whose repr is a name and not a literal.
RECURSIVE HasNonFinite(_)
HasNonFinite(v) ==
    CASE Kind(v) = "num" -> Payload(v)[1] \notin NumTokens
      [] Kind(v) = "list" -> \E i \in 1..Len(Payload(v)) : HasNonFinite(Payload(v)[i])
      [] Kind(v) = "map" -> \E i \in 1..Len(Payload(v)) : HasNonFinite(Payload(v)[i][2])
      [] OTHER -> FALSE

\* C8 as claimed: for a root without registered template, the literal that
\* is the argument of the emitted call decodes to a tree deep-equal to the
\* root's "config" subtree.  Stated for the trees without NaN or Infinity.
C8_LiteralDecodesToConfig ==
    EmittedWithoutTemplate /\ HasKey(spec, "config") /\ ~HasNonFinite(spec) =>
        /\ Decodes(CallArgument(body_code))
        /\ DeepEqual(Decode(CallArgument(body_code)), Get(spec, "config"))

\* C8 as the code has it: the literal decodes to a tree deep-equal to the
\* whole root spec, whose "config" is then deep-equal to the original one,
\* provided the tree holds no NaN or Infinity.
C8_LiteralDecodesToRoot ==
    EmittedWithoutTemplate /\ ~HasNonFinite(spec) =>
        /\ Decodes(CallArgument(body_code))
        /\ DeepEqual(Decode(CallArgument(body_code)), spec)
        /\ HasKey(spec, "config") =>
              DeepEqual(Get(Decode(CallArgument(body_code)), "config"), Get(spec, "config"))

C8_Witness ==
    /\ EmittedWithoutTemplate
    /\ pc = "done"
    /\ HasKey(spec, "config")
    /\ HasKey(spec, "label")
    /\ Get(spec, "label") = Str(<<"'", "a">>)
    /\ Decode(CallArgument(body_code)) # spec

\* C9: without a template registered for the root provider the body is one
\* assignment team = <Symbol>.load_component(<literal>), Symbol being what
\* follows the last "." of the root provider and the literal that of the
\* whole root, nested components included as data.
C9_FallbackStatement ==
    EmittedWithoutTemplate =>
        LET p == RootProvider(spec)
            symbol == SubSeq(p, LastDot(p) + 1, Len(p))
            arg == CallArgument(body_code)
        IN  /\ \A i \in 1..Len(symbol) : symbol[i] # "."
            /\ SubSeq(body_code, 1, Len(symbol) + 5)
                  = <<"team", "=">> \o symbol \o <<".", "load_component", "(">>
            /\ body_code[Len(body_code)] = ")"
            /\ Cardinality({i \in 1..Len(body_code) : body_code[i] = "="}) = 1
            /\ arg = dict_to_python_literal(spec)
            /\ ~HasNonFinite(spec) =>
                  /\ DeepEqual(Decode(arg), spec)
                  /\ collect_providers(Decode(arg)) = bag

C9_Witness ==
    /\ EmittedWithoutTemplate
    /\ pc = "done"
    /\ RootProvider(spec) = PDeep
    /\ PAgent \in bag
    /\ HasKey(spec, "config")

\* C10: the output file is written at most once in a run, and only once
\* every earlier step has completed; until then, and when an earlier step
\* fails, the file is as it was when the run started.
C10_NoPartialOutput ==
    /\ writes <= 1
    /\ writes = 1 =>
          /\ pc \in {"done", "failed"}
          /\ failed_at \in {"none", "write"}
          /\ reads = 1
          /\ spec = doc.tree
          /\ content = Content(Header(fname), import_lines, body_code, RunBlock)
    /\ writes = 0 => outfile = out_start
    /\ failed_at \in {"load", "resolve", "emit", "aggregate", "assemble"} =>
          writes = 0 /\ outfile = out_start
    /\ pc = "done" => outfile = [exists |-> TRUE, text |-> content]

C10_Witness ==
    /\ pc = "failed"
    /\ failed_at = "emit"
    /\ out_start = OldFile
    /\ outfile = OldFile
    /\ bag # {}

\* The steps of generate_python_from_json in the order of its statements.
StageOrder == <<"load", "resolve", "emit", "aggregate", "assemble", "write", "done">>
Stages == {"load", "resolve", "emit", "aggregate", "assemble", "write"}
StageRank(p) == CHOOSE i \in 1..Len(StageOrder) : StageOrder[i] = p

\* The exception the step the call is at raises when it fails.
OwnError ==
    CASE pc = "load" -> "JSONDecodeError"
      [] pc = "emit" -> emit_builder(spec, "team", registry).err
      [] pc = "write" -> "OSError"
      [] OTHER -> "None"

\* C11: within a call the steps run in the order load, resolve, emit,
\* aggregate, assemble, write, each at most once: every step either moves
\* to the next one with no error set, or fails with that step's own
\* exception; after a failure, and after the write, no step runs and the
\* exception is kept as it was, up to the traceback main's caller sees.
C11_LinearPipeline ==
    [][/\ (pc \in Stages /\ pc' # pc) =>
             \/ /\ pc' = StageOrder[StageRank(pc) + 1]
                /\ err' = "None"
                /\ failed_at' = "none"
                /\ run' = run
             \/ /\ pc' = "failed"
                /\ failed_at' = pc
                /\ err' = OwnError
                /\ err' # "None"
                /\ run' = run
       /\ (pc \in {"done", "failed"} /\ run' = run) =>
             /\ pc' = pc
             /\ UNCHANGED <<err, failed_at, reads, writes, outfile, content>>
       /\ (pc = "failed" /\ exit_status' # exit_status) =>
             stderr'[Len(stderr')] = err
       /\ (pc \in {"done", "failed"} /\ run' # run) => pc' = "load"]_vars

C11_Witness ==
    /\ pc = "failed"
    /\ failed_at = "write"
    /\ err = "OSError"
    /\ exit_status = 1
    /\ stderr # <<>>

\* The call ended with an exception.
StageFailed == pc = "failed"

\* C12: main ends with a status other than 0 and exactly one line on
\* standard error when the input path does not exist, with nothing read
\* or written, and likewise when a step of the call fails; the success
\* message is printed only after the write has completed.
C12_OneDiagnosticLine ==
    exit_status # -1 =>
       /\ (exit_status # 0) = (~input_exists \/ StageFailed)
       /\ exit_status # 0 => Len(stderr) = 1 /\ stdout = <<>>
       /\ ~input_exists => reads = 0 /\ writes = 0 /\ outfile = out_start /\ pc = "main"
       /\ stdout # <<>> =>
             /\ pc = "done"
             /\ writes = 1
             /\ outfile = [exists |-> TRUE, text |-> content]

\* The text has been assembled.
Assembled == pc \in {"write", "done"} \/ (pc = "failed" /\ failed_at = "write")

\* The pieces of the assembled text between its separators.
Sections == SplitOn(content, "\n\n")

\* C13: the assembled text is, in this order and each once, the header
\* comment with the input file's name, the import statements, the body
\* code and the runner, with nothing between them but the separator and
\* the empty pieces that make the blank lines.
C13_SectionsInOrder ==
    Assembled =>
       LET n == Len(import_lines) IN
       /\ n >= 1
       /\ Len(Sections) = n + 6
       /\ Sections[1] = Header(fname)
       /\ \E k \in 1..Len(Sections[1]) : Sections[1][k] = fname
       /\ \A i \in 1..n : Sections[1 + i] = import_lines[i] /\ Sections[1 + i][1] = "from"
       /\ Sections[n + 2] = <<>>
       /\ Sections[n + 3] = body_code
       /\ body_code # <<>> /\ body_code[1] = "team"
       /\ Sections[n + 4] = <<>>
       /\ Sections[n + 5] = RunBlock
       /\ Sections[n + 6] = <<>>

C13_Witness ==
    /\ pc = "done"
    /\ RootTemplateRendersDict
    /\ Len(Sections) = 7
    /\ outfile.text = content

\* The import statements have been built.
Grouped == pc = "assemble" \/ Assembled

\* The classes an import set pairs with a module.
ClassesOf(m) == {p[2] : p \in {q \in import_set : q[1] = m}}

\* The tokens of a sequence, as a set.
Range(t) == {t[i] : i \in 1..Len(t)}

\* C14: for any set of (module, class) pairs, the import statements are
\* one for each distinct module, in ascending order of the modules, and
\* each lists the classes paired with its module in ascending order, none
\* twice.
C14_OneSortedLinePerModule ==
    Grouped =>
       LET n == Len(import_lines)
           mod(i) == LineModule(import_lines[i])
           cls(i) == LineClasses(import_lines[i])
       IN  /\ n = Cardinality({p[1] : p \in import_set})
           /\ \A p \in import_set : \E i \in 1..n : mod(i) = p[1]
           /\ \A i, j \in 1..n : i < j => StrLess(mod(i), mod(j))
           /\ \A i \in 1..n :
                 /\ Range(cls(i)) = ClassesOf(mod(i))
                 /\ ClassesOf(mod(i)) # {}
                 /\ \A k, l \in 1..Len(cls(i)) : k < l => StrLess(cls(i)[k], cls(i)[l])

C14_Witness ==
    /\ pc = "assemble"
    /\ Len(import_lines) = 3
    /\ Len(LineClasses(import_lines[2])) = 2
    /\ Cardinality(import_set) = 5

\* The name the body code calls: what stands between the "=" and the first
\* "." or "(" after it.
CalledSymbol(code) ==
    LET stop == CHOOSE k \in 3..Len(code) :
                    /\ code[k] \in {".", "("}
                    /\ \A j \in 3..(k - 1) : code[j] \notin {".", "("}
    IN  SubSeq(code, 3, stop - 1)

\* The root provider's module and class, read off the provider str.
RootModule == SubSeq(RootProvider(spec), 1, LastDot(RootProvider(spec)) - 1)
RootClass == SubSeq(RootProvider(spec), LastDot(RootProvider(spec)) + 1, Len(RootProvider(spec)))

\* Some import statement imports the name from the root provider's module.
ImportedFromRootModule(name) ==
    \E i \in 1..Len(import_lines) :
       /\ LineModule(import_lines[i]) = RootModule
       /\ name \in Range(LineClasses(import_lines[i]))

\* emit_builder returned and the import statements are built, in a run of
\* the program.
EmittedAndGrouped == Grouped /\ body_code # <<>>

\* C15 as claimed: on the fallback path and on the template path, the
\* import set holds the root provider's (module, class) pair, and the name
\* the body code calls is imported from the root provider's module.
C15_BodySymbolImported ==
    EmittedAndGrouped =>
       /\ <<RootModule, RootClass>> \in import_set
       /\ ImportedFromRootModule(RootClass)
       /\ ImportedFromRootModule(CalledSymbol(body_code))

\* C15 as the code has it: the pair is in the import set and imported on
\* both paths, and no other import is made; on the fallback path the name
\* the body code calls is the root provider's class, hence imported.
C15_RootImportedFallbackCallsIt ==
    EmittedAndGrouped =>
       /\ import_set = {<<RootModule, RootClass>>}
       /\ Len(import_lines) = 1
       /\ ImportedFromRootModule(RootClass)
       /\ RootOnFallback =>
             /\ CalledSymbol(body_code) = RootClass
             /\ ImportedFromRootModule(CalledSymbol(body_code))

C15_Witness ==
    /\ EmittedAndGrouped
    /\ ~RootOnFallback
    /\ CalledSymbol(body_code) = <<"Agent">>
    /\ ImportedFromRootModule(RootClass)
    /\ pc = "done"

\* The values directly inside a value: a dict's values, a list's elements.
Children(v) ==
    CASE Kind(v) = "map" -> {Payload(v)[i][2] : i \in 1..Len(Payload(v))}
      [] Kind(v) = "list" -> {Payload(v)[i] : i \in 1..Len(Payload(v))}
      [] OTHER -> {}

\* The values reachable from those of S through dict values and list
\* elements, at any depth.
RECURSIVE ReachableFrom(_)
ReachableFrom(S) ==
    LET T == S \cup UNION {Children(v) : v \in S}
    IN  IF T = S THEN S ELSE ReachableFrom(T)

\* The strs that are the value of a "provider" key in a reachable dict.
ProviderStrings(t) ==
    {Payload(Get(m, "provider")) :
        m \in {n \in ReachableFrom({t}) :
                  IsDict(n) /\ HasKey(n, "provider") /\ IsStr(Get(n, "provider"))}}

\* collect_providers has returned in this call.
Collected ==
    \/ pc \in {"emit", "aggregate", "assemble", "write", "done"}
    \/ pc = "failed" /\ failed_at \in {"emit", "write"}

\* C16: what collect_providers returns is exactly the set of strs that
\* are the value of a "provider" key in a dict reachable from the root
\* through dict values and list elements; a provider value that is no str
\* adds nothing itself and is still walked.
C16_CollectsExactlyProviderStrings ==
    Collected => bag = ProviderStrings(spec)

C16_Witness ==
    /\ Collected
    /\ IsDict(spec) /\ HasKey(spec, "provider") /\ IsDict(Get(spec, "provider"))
    /\ bag = {PAgent}

\* The document's root is no dict, or has no "provider" key, or has one
\* whose value is no str.
RootWithoutProviderStr == doc.ok /\ ~HasRootProvider(doc.tree)

\* C17: a document whose root is no dict, lacks "provider" or has a
\* provider that is no str never gets past emit_builder: the call ends
\* there with an exception, with no import recorded, no body code, no import
\* statement or text built and the output file as it was.
C17_RootMustHaveProviderStr ==
    RootWithoutProviderStr =>
       /\ pc \notin {"aggregate", "assemble", "write", "done"}
       /\ NothingProduced
       /\ pc = "failed" =>
             /\ failed_at = "emit"
             /\ err \in {"ValueError", "AttributeError"}
             /\ reads = 1

C17_Witness ==
    /\ RootWithoutProviderStr
    /\ IsDict(doc.tree) /\ HasKey(doc.tree, "provider")
    /\ pc = "failed"
    /\ err = "AttributeError"
    /\ bag # {}

\* The registry has, for the root provider, the template that picks
\* cfg[config][name], and the document has no such field: no "config",
\* a "config" that is no dict, or one without "name".
TemplateFieldMissing ==
    /\ doc.ok
    /\ HasRootProvider(doc.tree)
    /\ LastDot(RootProvider(doc.tree)) # 0
    /\ RootProvider(doc.tree) \in DOMAIN registry
    /\ registry[RootProvider(doc.tree)] = TplName
    /\ \/ ~HasKey(doc.tree, "config")
       \/ ~IsDict(Get(doc.tree, "config"))
       \/ ~HasKey(Get(doc.tree, "config"), "name")

\* The call never gets past emit_builder, and nothing is produced.
StopsAtEmit ==
    /\ pc \notin {"aggregate", "assemble", "write", "done"}
    /\ pc = "failed" => failed_at = "emit"
    /\ NothingProduced

\* C18 as claimed: when rendering the root's template raises, the call
\* fails in emit_builder with TemplateError, no body code is returned and
\* the output file is not written.
C18_TemplateError ==
    TemplateFieldMissing => StopsAtEmit /\ (pc = "failed" => err = "TemplateError")

\* C18 as the code has it: the call fails in emit_builder with the
\* exception str.format raised, KeyError or TypeError, as it is; no body
\* code is returned and the output file is not written.
C18_FormatErrorAsRaised ==
    TemplateFieldMissing => StopsAtEmit /\ (pc = "failed" => err \in {"KeyError", "TypeError"})

C18_Witness ==
    /\ TemplateFieldMissing
    /\ pc = "failed"
    /\ err = "TypeError"
    /\ out_start = OldFile
    /\ outfile = OldFile

\* C19: a call that succeeds has read the input once and written the
\* output once, the read before the write: from the read to the write
\* the counts stand at one read and no write, and no count passes one.
C19_OneReadThenOneWrite ==
    /\ reads <= 1 /\ writes <= 1
    /\ writes = 1 => reads = 1
    /\ pc \in {"resolve", "emit", "aggregate", "assemble", "write"} => reads = 1 /\ writes = 0
    /\ pc = "done" => reads = 1 /\ writes = 1
    /\ exit_status = 0 => pc = "done"

C19_Witness ==
    /\ exit_status = 0
    /\ reads = 1
    /\ writes = 1
    /\ out_start = OldFile
    /\ outfile.text = content

\* The input has been parsed in this call.
Loaded == pc \notin {"main", "load"} /\ failed_at # "load"

\* C20: after the parse nothing changes the parsed tree: through
\* collect_providers, emit_builder on either path and the later steps,
\* to the end of the call, it equals what parsing the document gave.
C20_TreeUnchanged ==
    Loaded => doc.ok /\ spec = doc.tree

C20_Witness ==
    /\ pc = "done"
    /\ spec = doc.tree
    /\ ~RootOnFallback
    /\ bag # {}
    /\ Len(Payload(spec)) = 2

\* The runner of a text: its last piece but one.
StubOf(text) == SplitOn(text, "\n\n")[Len(SplitOn(text, "\n\n")) - 1]

\* The variable the runner calls run on: what stands before ".", "run".
StubVariable(stub) ==
    stub[(CHOOSE k \in 2..(Len(stub) - 1) : stub[k] = "." /\ stub[k + 1] = "run") - 1]

HasDot(p) == \E i \in 1..Len(p) : p[i] = "."

\* C28: for a provider with at least one ".", split_provider gives module
\* and class with module + "." + class = provider and no "." in the class;
\* for a provider without ".", the empty one included, it raises instead.
C28_SplitAtLastDot ==
    (/\ pc = "aggregate" \/ (pc = "failed" /\ failed_at = "emit")
     /\ HasRootProvider(spec)
     /\ registry = <<>>) =>
       LET p == RootProvider(spec) IN
       IF HasDot(p)
       THEN /\ pc = "aggregate"
            /\ Cardinality(import_set) = 1
            /\ \A pair \in import_set :
                  /\ pair[1] \o <<".">> \o pair[2] = p
                  /\ ~HasDot(pair[2])
       ELSE /\ pc = "failed"
            /\ failed_at = "emit"
            /\ err = "ValueError"
            /\ import_set = {}

C28_Witness ==
    /\ pc = "aggregate"
    /\ RootProvider(spec) = <<"a", ".", ".", "B">>
    /\ import_set = {<< <<"a", ".">>, <<"B">> >>}

\* One record for each entry of the feed, in the feed's order.
RecordsOf(f) == [i \in 1..Len(f.entries) |-> Record(f.entries[i])]

\* C22: cre_rss_tool returns a list with one record for each entry of the
\* feed, in the feed's order, each with title, link and published, a
\* missing field replaced by its default text; a feed flagged bozo gives
\* a warning and the records all the same.
C22_ReturnsRecords ==
    (rss_pc \in {"returned", "main_done", "main_raised"} /\ feed.entries # <<>>) =>
       /\ rss_ret = ReturnsList(RecordsOf(feed))
       /\ feed.bozo => Len(rss_out) >= 1

\* The params carry refine.filiere = "Gaz".
FiltersOnGaz(p) == "refine.filiere" \in DOMAIN p /\ p["refine.filiere"] = "Gaz"

\* C23: every request the tool sends, on the standard path and for every
\* candidate field, carries refine.filiere = "Gaz", whatever the
\* arguments, and so do the filters of the query it reports.
C23_AlwaysFiltersOnGaz ==
    /\ \A p \in sent : FiltersOnGaz(p)
    /\ gaz_pc = "http" => FiltersOnGaz(req_params)
    /\ gaz_pc = "returned" => FiltersOnGaz(result.filters)

C23_Witness ==
    /\ gaz_pc = "returned"
    /\ cand = 2
    /\ Cardinality(sent) = 2
    /\ args.nom_commune = "Paris"
    /\ DOMAIN result.filters =
          {"refine.filiere", "refine.nom_commune", "refine.code_insee_commune"}

\* The attempt failed: requests.get raised, or the status is 500 or more.
Failed(a) == a.kind = "exc" \/ a.status >= 500

\* C25: a call of _http_get makes at most 4 requests, and none once it
\* has made 4; before the second, third and fourth it has slept 0.5 s,
\* 1 s and 2 s, in this order, and before the first not at all.
C25_AtMostFourAttempts ==
    /\ Len(attempts) <= 4
    /\ gaz_pc = "http" => Len(attempts) < 4
    /\ slept = SubSeq(<<500, 1000, 2000>>, 1, Len(slept))
    /\ Len(slept) = (IF attempts = <<>> THEN 0 ELSE Len(attempts) - 1)

C25_Witness ==
    /\ gaz_pc = "raised"
    /\ Len(attempts) = 4
    /\ slept = <<500, 1000, 2000>>
    /\ attempts[2].kind = "exc"
    /\ attempts[3].status = 500

\* C26: every attempt that another one follows failed; a response with a
\* status under 500 is returned by the attempt that got it; the response
\* the caller holds never has a status of 500 or more; and when the
\* fourth attempt fails too, the exception raised is that of the fourth:
\* the one requests.get raised, or a RuntimeError for its status.
C26_RetryOnFailureOnly ==
    /\ \A i \in 1..(Len(attempts) - 1) : Failed(attempts[i])
    /\ gaz_pc = "http" => \A i \in 1..Len(attempts) : Failed(attempts[i])
    /\ resp.status < 500
    /\ gaz_pc \in {"candidate", "standard"} =>
          /\ attempts # <<>>
          /\ ~Failed(attempts[Len(attempts)])
          /\ resp = [status |-> attempts[Len(attempts)].status,
                     body |-> attempts[Len(attempts)].body]
    /\ gaz_err.at = "http" =>
          /\ gaz_pc = "raised"
          /\ Len(attempts) = 4
          /\ Failed(attempts[4])
          /\ IF attempts[4].kind = "exc"
             THEN gaz_err.type = attempts[4].type
             ELSE gaz_err.type = "RuntimeError" /\ gaz_err.status = attempts[4].status

C26_Witness ==
    /\ gaz_err.at = "http"
    /\ attempts[1].kind = "exc"
    /\ attempts[3].status = 500
    /\ attempts[4].status = 503
    /\ gaz_err.type = "RuntimeError"
    /\ gaz_err.status = 503

\* The tool is on the INSEE path.
OnInseePath == gaz_pc # "start" /\ args.code_insee_commune # ""

\* C27: on the INSEE path the candidate fields are queried in the order
\* code_commune_insee, code_insee_commune, code_commune; the candidate
\* adopted has a response with status 200 and nhits > 0, and is the first
\* such: a response that qualifies is adopted and no candidate is queried
\* after it; with all three queried and none adopted the tool raises
\* RuntimeError; and a return reports nhits > 0 and the adopted filter.
C27_FirstQualifyingCandidate ==
    /\ [](OnInseePath =>
            /\ queried = SubSeq(<<"code_commune_insee", "code_insee_commune", "code_commune">>,
                                1, cand)
            /\ found => resp.status = 200 /\ Nhits(resp.body) > 0
            /\ found => used_params = (RefineKey(queried[cand]) :> args.code_insee_commune) @@ params
            /\ gaz_err.at = "insee" =>
                  gaz_err.type = "RuntimeError" /\ Len(queried) = 3 /\ ~found
            /\ gaz_pc = "returned" =>
                  /\ found
                  /\ result.nhits > 0
                  /\ result.filters[RefineKey(queried[cand])] = args.code_insee_commune)
    /\ [][/\ (gaz_pc = "candidate" /\ resp.status = 200 /\ resp.body = "nhits2") => found'
          /\ found => queried' = queried /\ sent' = sent
          /\ (gaz_pc = "candidate" /\ gaz_err'.at = "insee") => cand = 3]_vars

C27_Witness ==
    /\ gaz_pc = "returned"
    /\ cand = 3
    /\ found
    /\ result.nhits = 2
    /\ Cardinality(sent) = 3

\* C30: a candidate is given up for the next one only when its response
\* is no JSON, or has a status other than 200, or nhits = 0; when a call
\* of _http_get for a candidate has all its attempts fail, the tool
\* raises that failure there: no candidate is adopted, tried or queried
\* after it.
C30_ExhaustedRetriesEndTheTool ==
    /\ [](/\ (Len(attempts) = 4 /\ Failed(attempts[4])) =>
               gaz_pc = "raised" /\ gaz_err.at = "http"
          /\ (gaz_err.at = "http" /\ OnInseePath) =>
               /\ Len(queried) = cand
               /\ ~found
               /\ IF attempts[4].kind = "exc"
                  THEN gaz_err.type = attempts[4].type
                  ELSE gaz_err.type = "RuntimeError" /\ gaz_err.status = attempts[4].status)
    /\ [][/\ (cand >= 1 /\ cand' # cand) =>
                /\ cand' = cand + 1
                /\ gaz_pc = "candidate"
                /\ resp.body = "nojson" \/ resp.status # 200 \/ Nhits(resp.body) = 0
          /\ gaz_pc = "raised" => UNCHANGED <<queried, sent, cand, found, gaz_pc>>]_vars

C30_Witness ==
    /\ gaz_err.at = "http"
    /\ cand = 2
    /\ queried = <<"code_commune_insee", "code_insee_commune">>
    /\ gaz_err.type = "Timeout"

C29_FalseMeansProblemLogged ==
    /\ \A t \in DOMAIN returned : ~returned[t] => logged[t] > 0
    /\ (report # NoReport /\ \E k \in Services : ~report.services[k]) =>
          report.summary = "PROBLEMES DETECTES"

====
